---------------------------- MODULE Spec2Model ----------------------------
(***************************************************************************)
(* PatchMatch inpainting (Inpaint, NearestNeighborField, MaskedImage) of   *)
(* plugins/paintops/defaultpaintops/brush/tests/kis_clone_test.cpp.        *)
(*                                                                         *)
(* A paint device is a record [w, h, px]: its exact bounds are the         *)
(* rectangle (0, 0, w, h) (the devices of testPatchMatch are converted     *)
(* from a QImage at offset 0) and px maps <<x, y>> to one byte; a read     *)
(* outside the rectangle yields the default pixel 0.  An image pixel is    *)
(* one colour byte (its alpha is opaque and constant).                     *)
(***************************************************************************)
EXTENDS Integers, Sequences, FiniteSets, TLC

\* ------------------------------------------------------------ bounds
MaxW == 4
MaxH == 3
MaxRadius == 1
\* largest coordinate of a rectangle handed to alignRectBy2 in SpecCalls
MaxCoord == 3

\* ------------------------------------------------------------ constants
MAX_DIST == 65535
ssdmax == 650250
maxretry == 20
MaskThreshold == 128

Min(a, b) == IF a < b THEN a ELSE b
Max(a, b) == IF a > b THEN a ELSE b

\* #define isOdd(x) ((x) & 0x01): 1 for every odd x, negative ones included
isOdd(x) == x % 2


\* alignRectBy2: the statements in their order; w += isOdd(x) reads the x
\* that the first statement has already made even
alignRectBy2(x, y, w, h) ==
    LET x1 == x - isOdd(x)
        y1 == y - isOdd(y)
        w1 == w + isOdd(x1)
        w2 == w1 + isOdd(w1)
        h1 == h + isOdd(y1)
        h2 == h1 + isOdd(h1)
    IN  [x |-> x1, y |-> y1, w |-> w2, h |-> h2]

\* ------------------------------------------------------------ paint devices
Cells(w, h) == (0 .. w - 1) \X (0 .. h - 1)

EmptyDev == [w |-> 0, h |-> 0, px |-> [p \in {} |-> 0]]

\* a read through an iterator or accessor: the default pixel outside the data
ReadDev(dev, x, y) ==
    IF x >= 0 /\ x < dev.w /\ y >= 0 /\ y < dev.h THEN dev.px[<<x, y>>] ELSE 0

\* KoMixColorsOp::mixColors of four pixels with the weights {64, 64, 64, 63}
mixColors(p0, p1, p2, p3) == (64 * p0 + 64 * p1 + 64 * p2 + 63 * p3) \div 255

\* ------------------------------------------------------------ MaskedImage
\* cacheImage: imageCache[x][y] for the pixels of imageSize
cacheImage(dev) == [p \in Cells(dev.w, dev.h) |-> ReadDev(dev, p[1], p[2])]

\* cacheMask: maskCache[x][y] = (*pixel < 128) over QRect(0, 0, width, height)
cacheMask(mdev, w, h) ==
    [p \in Cells(w, h) |-> ReadDev(mdev, p[1], p[2]) < MaskThreshold]

\* MaskedImage(_imageDev, _maskDev): clone(dev, mask) copies both devices and
\* calls cacheEverything()
MaskedImage(idev, mdev) ==
    [imageDev   |-> idev,
     maskDev    |-> mdev,
     imageSize  |-> [w |-> idev.w, h |-> idev.h],
     maskCache  |-> cacheMask(mdev, idev.w, idev.h),
     imageCache |-> cacheImage(idev)]

NoImage == MaskedImage(EmptyDev, EmptyDev)

\* KisSharedPtr<MaskedImage> clone()
clone(m) == MaskedImage(m.imageDev, m.maskDev)

\* clearMask: fills the exact bounds of the mask device with the byte 0; the
\* caches are not rebuilt
clearMask(m) ==
    [m EXCEPT !.maskDev.px = [p \in DOMAIN m.maskDev.px |-> 0]]

size(m) == m.imageSize

isMasked(m, x, y) == m.maskCache[<<x, y>>]

countMasked(m) == Cardinality({p \in DOMAIN m.maskCache : m.maskCache[p]})

getImagePixelU8(m, x, y) == m.imageCache[<<x, y>>]

\* one device of downsample2x: every destination pixel mixes the 2x2 block
\* of the aligned source rectangle
downsampleDev(dev, r) ==
    [w  |-> r.w \div 2,
     h  |-> r.h \div 2,
     px |-> [p \in Cells(r.w \div 2, r.h \div 2) |->
               mixColors(ReadDev(dev, r.x + 2 * p[1],     r.y + 2 * p[2]),
                         ReadDev(dev, r.x + 2 * p[1] + 1, r.y + 2 * p[2]),
                         ReadDev(dev, r.x + 2 * p[1],     r.y + 2 * p[2] + 1),
                         ReadDev(dev, r.x + 2 * p[1] + 1, r.y + 2 * p[2] + 1))]]

\* downsample2x: align the exact bounds, return when empty, else replace both
\* devices by their half-size versions and re-cache
downsample2x(m) ==
    LET r == alignRectBy2(0, 0, m.imageDev.w, m.imageDev.h)
    IN  IF r.w < 1 \/ r.h < 1 THEN m
        ELSE MaskedImage(downsampleDev(m.imageDev, r), downsampleDev(m.maskDev, r))

\* KisTransformWorker with the scale factors (sx, sy) and the Bilinear
\* filter: the device becomes sx times wider and sy times higher
transformDev(dev, sx, sy) ==
    [w  |-> dev.w * sx,
     h  |-> dev.h * sy,
     px |-> [p \in Cells(dev.w * sx, dev.h * sy) |->
               dev.px[<<p[1] \div sx, p[2] \div sy>>]]]

\* upscale: the factor handed to KisTransformWorker is xsize/sz.width() in
\* int arithmetic
upscaleFactor(xsize, w) == xsize \div w

upscale(m, xsize, ysize) ==
    LET sx == upscaleFactor(xsize, size(m).w)
        sy == upscaleFactor(ysize, size(m).h)
    IN  MaskedImage(transformDev(m.imageDev, sx, sy),
                    transformDev(m.maskDev, sx, sy))

\* MaskedImage::distance: squared difference of the cached pixels
pixelDistance(m, x, y, other, xo, yo) ==
    LET v == m.imageCache[<<x, y>>] - other.imageCache[<<xo, yo>>]
    IN  v * v


\* ------------------------------------------------------------ NearestNeighborField
\* An NNF is [input, output, imSize, field]: input is the target image, output
\* the source image, field maps <<x, y>> to an NNPixel [x, y, distance].
NNPixel(sx, sy, d) == [x |-> sx, y |-> sy, distance |-> d]

Offsets(R) == (-R .. R) \X (-R .. R)

RECURSIVE SumOver(_, _)
\* sum of f[e] for the e of the finite set S
SumOver(f, S) ==
    IF S = {} THEN 0
    ELSE LET e == CHOOSE e \in S : TRUE IN f[e] + SumOver(f, S \ {e})

\* whether the offset (dx, dy) of the patches centred at (x, y) in the input
\* and (xp, yp) in the output is penalised: one of the two pixels is out of
\* bounds or masked
penalised(nnf, x, y, xp, yp, dx, dy) ==
    LET xks == x + dx
        yks == y + dy
        xkt == xp + dx
        ykt == yp + dy
    IN  \/ xks < 0 \/ xks >= size(nnf.input).w
        \/ yks < 0 \/ yks >= size(nnf.input).h
        \/ isMasked(nnf.input, xks, yks)
        \/ xkt < 0 \/ xkt >= size(nnf.output).w
        \/ ykt < 0 \/ ykt >= size(nnf.output).h
        \/ isMasked(nnf.output, xkt, ykt)

\* offsetCost with a penalty that is not covered by the weight added to wsum;
\* used as the mutant of offsetCost
offsetCostHeavy(nnf, x, y, xp, yp, dx, dy) ==
    IF penalised(nnf, x, y, xp, yp, dx, dy) THEN 2 * ssdmax
    ELSE pixelDistance(nnf.input, x + dx, y + dy, nnf.output, xp + dx, yp + dy)

\* what one offset adds to the running distance
offsetCost(nnf, x, y, xp, yp, dx, dy) ==
    IF penalised(nnf, x, y, xp, yp, dx, dy) THEN ssdmax
    ELSE pixelDistance(nnf.input, x + dx, y + dy, nnf.output, xp + dx, yp + dy)

RECURSIVE doubled(_, _, _, _)
\* [q, r] with (2^n) * (q0 * c + r0) = q * c + r and 0 <= r < c
doubled(q0, r0, c, n) ==
    IF n = 0 THEN [q |-> q0, r |-> r0]
    ELSE IF 2 * r0 >= c THEN doubled(2 * q0 + 1, 2 * r0 - c, c, n - 1)
         ELSE doubled(2 * q0, 2 * r0, c, n - 1)

\* "MAX_DIST*distance / wsum" in the 64-bit long of the source (LP64).
\* MAX_DIST is 2^16 - 1: the quotient of 2^16 * dist by wsum is built by
\* doubling and dist is subtracted, so that no intermediate value leaves the
\* range of the 32-bit integers of the model checker.
scaledDistance(dist, wsum) ==
    LET q0 == dist \div wsum
        r0 == dist % wsum
        d  == doubled(q0, r0, wsum, 16)
    IN  IF d.r >= r0 THEN d.q - q0 ELSE d.q - q0 - 1

\* NearestNeighborField::distance
distance(nnf, patchSize, x, y, xp, yp) ==
    LET cost == [o \in Offsets(patchSize) |->
                    offsetCost(nnf, x, y, xp, yp, o[1], o[2])]
        dist == SumOver(cost, Offsets(patchSize))
        wsum == ssdmax * Cardinality(Offsets(patchSize))
    IN  scaledDistance(dist, wsum)

\* strict comparison of a candidate against the stored distance, replaced by
\* <=; used as the mutant of improves
improvesOrEqual(dp, d) == dp <= d

\* "if (dp < field[x][y].distance)": the test of every update in minimizeLink
improves(dp, d) == dp < d

\* one candidate (xp, yp) tried for the cell (x, y): adopted when it improves
tryCandidate(nnf, patchSize, x, y, xp, yp) ==
    LET dp == distance(nnf, patchSize, x, y, xp, yp)
    IN  IF improves(dp, nnf.field[<<x, y>>].distance)
        THEN [nnf EXCEPT !.field[<<x, y>>] = NNPixel(xp, yp, dp)]
        ELSE nnf

\* std::max(0, std::min(n - 1, v))
clampCoord(v, n) == Max(0, Min(n - 1, v))

\* NearestNeighborField(_input, _output, _patchsize): the field has the
\* extents of the input; its entries are not initialised, (0, 0, 0) here
NearestNeighborField(input, output) ==
    [input  |-> input,
     output |-> output,
     imSize |-> size(input),
     field  |-> [p \in Cells(size(input).w, size(input).h) |-> NNPixel(0, 0, 0)]]

NoNNF == NearestNeighborField(NoImage, NoImage)

\* the first loop of initialize(nnf) without the two multiplications by
\* xscale and yscale; used as the mutant of initializeFrom
initializeFromUnscaled(new, old) ==
    LET xscale == new.imSize.w \div old.imSize.w
        yscale == new.imSize.h \div old.imSize.h
    IN  [new EXCEPT !.field =
            [p \in DOMAIN new.field |->
                LET xlow == Min(p[1] \div xscale, old.imSize.w - 1)
                    ylow == Min(p[2] \div yscale, old.imSize.h - 1)
                IN  NNPixel(old.field[<<xlow, ylow>>].x,
                            old.field[<<xlow, ylow>>].y,
                            MAX_DIST)]]

\* initialize(const NearestNeighborField& nnf), its first loop: the links of
\* the coarser field scaled by the ratio of the sizes
initializeFrom(new, old) ==
    LET xscale == new.imSize.w \div old.imSize.w
        yscale == new.imSize.h \div old.imSize.h
    IN  [new EXCEPT !.field =
            [p \in DOMAIN new.field |->
                LET xlow == Min(p[1] \div xscale, old.imSize.w - 1)
                    ylow == Min(p[2] \div yscale, old.imSize.h - 1)
                IN  NNPixel(old.field[<<xlow, ylow>>].x * xscale,
                            old.field[<<xlow, ylow>>].y * yscale,
                            MAX_DIST)]]

\* ------------------------------------------------------------ similarity curve
\* init_similarity_curve: similarity[i] = 0.5 - 0.5*tanh(coef*(i/65536 - 0.1))
\* is a float; it is bracketed here in millionths.  SimTable[k + 1] is
\* similarity[k * SimStep] rounded down, and the curve falls monotonically,
\* so similarity[d] lies between simLow(d) and simHigh(d).
SimUnit == 1000000
SimStep == 1024
SimTable == <<999000, 997063, 991408, 975137, 930217, 819187, 606272, 343551, 151011, 57007, 20133, 6934, 2367, 806, 274, 93, 31, 10, 3, 1, 0, 0, 0, 0, 0, 0>>

simLow(d) ==
    LET k == d \div SimStep IN IF k + 2 <= Len(SimTable) THEN SimTable[k + 2] ELSE 0

simHigh(d) ==
    LET k == d \div SimStep
    IN  (IF k + 1 <= Len(SimTable) THEN SimTable[k + 1] ELSE SimTable[Len(SimTable)]) + 1

\* similarity[d], rounded up or down
similarity(d, up) == IF up THEN simHigh(d) ELSE simLow(d)

\* ------------------------------------------------------------ Inpaint::EM_Step
\* the histogram kept as a float grid; used as the mutant of histAdd
histAddFloat(h, w) == h * SimUnit + w

\* "histogram[colorChan][colorValue] += w" on the int grid HistArray_type: the
\* sum is converted back to int, which truncates it.  h is the int value
\* before, w the weight in millionths; the result is in millionths.
histAdd(h, w) == ((h * SimUnit + w) \div SimUnit) * SimUnit

\* the field entry EM_Step reads for the patch centre (xpt, ypt)
votedEntry(upscaled, xpt, ypt) ==
    IF upscaled THEN <<xpt \div 2, ypt \div 2>> ELSE <<xpt, ypt>>

\* the source pixel (xs, ys) that the patch offset (dx, dy) pairs with the
\* target pixel (x, y)
votedSource(nnf, upscaled, x, y, dx, dy) ==
    LET xpt == x + dx
        ypt == y + dy
        f   == nnf.field[votedEntry(upscaled, xpt, ypt)]
        xst == IF upscaled THEN 2 * f.x + (xpt % 2) ELSE f.x
        yst == IF upscaled THEN 2 * f.y + (ypt % 2) ELSE f.y
    IN  <<xst - dx, yst - dy>>

\* the patch centre (x + dx, y + dy) passes the "continue" tests on xpt, ypt
centreInField(nnf, upscaled, x, y, dx, dy) ==
    LET sz  == size(nnf.input)
        xpt == x + dx
        ypt == y + dy
    IN  /\ xpt >= 0 /\ xpt < (IF upscaled THEN 2 * sz.w ELSE sz.w)
        /\ ypt >= 0 /\ ypt < (IF upscaled THEN 2 * sz.h ELSE sz.h)

\* the "continue" tests on xs, ys passed without the two comparisons against
\* sz; used as the mutant of sourceInSize
sourceInSizeUnchecked(nnf, xs, ys) == TRUE

\* the "continue" tests on xs, ys
sourceInSize(nnf, xs, ys) ==
    LET sz == size(nnf.input)
    IN  /\ xs >= 0 /\ xs < sz.w
        /\ ys >= 0 /\ ys < sz.h

\* the patch offsets of the target pixel (x, y) that reach the test
\* source->isMasked(xs, ys)
reachesMaskTest(nnf, upscaled, x, y, dx, dy) ==
    /\ centreInField(nnf, upscaled, x, y, dx, dy)
    /\ LET s == votedSource(nnf, upscaled, x, y, dx, dy)
       IN  sourceInSize(nnf, s[1], s[2])

\* the patch offsets of the target pixel (x, y) that add to the histogram:
\* the patch centre lies in the field and the source pixel is in sz and unmasked
contributes(source, nnf, upscaled, x, y, dx, dy) ==
    /\ reachesMaskTest(nnf, upscaled, x, y, dx, dy)
    /\ LET s == votedSource(nnf, upscaled, x, y, dx, dy)
       IN  ~isMasked(source, s[1], s[2])

\* the weight w of a contributing offset
voteWeight(nnf, upscaled, x, y, dx, dy, up) ==
    similarity(nnf.field[votedEntry(upscaled, x + dx, y + dy)].distance, up)

RECURSIVE histFold(_, _)
\* the bin of the colour value after the weights ws (a sequence) were added
histFold(h, ws) ==
    IF ws = << >> THEN h ELSE histFold(histAdd(h \div SimUnit, Head(ws)), Tail(ws))

RECURSIVE SetToSeq(_)
SetToSeq(S) ==
    IF S = {} THEN << >>
    ELSE LET e == CHOOSE e \in S : TRUE IN <<e>> \o SetToSeq(S \ {e})

\* the loop over the 256 bins of one channel: the histogram is hbin at the
\* bin v and 0 elsewhere, so cdf is 0 before the bin v and hbin from it on.
\* The bin i is added to contrib and wcontrib when cdf is not below lowth
\* there and no bin before it took the break (cdf above highth after being
\* added).  Returns [contrib, wcontrib].
cdfWalk(v, hbin, wsum) ==
    LET cdf(i)    == IF i >= v THEN hbin ELSE 0
        added(i)  == 10 * cdf(i) >= 4 * wsum
        breaks(i) == added(i) /\ 10 * cdf(i) > 6 * wsum
        counted(i) == added(i) /\ \A j \in 0 .. i - 1 : ~breaks(j)
    IN  IF counted(v) THEN [contrib |-> v * hbin, wcontrib |-> hbin]
                      ELSE [contrib |-> 0, wcontrib |-> 0]

\* the sums of the target pixel (x, y): wsum, the sum hsum of the bins of the
\* histogram, and contrib and wcontrib after the loop over the bins; the
\* weights are in millionths
voteSums(source, nnf, radius, upscaled, x, y, up) ==
    LET R    == IF upscaled THEN 2 * radius ELSE radius
        offs == {o \in Offsets(R) :
                    contributes(source, nnf, upscaled, x, y, o[1], o[2])}
        wf   == [o \in offs |-> voteWeight(nnf, upscaled, x, y, o[1], o[2], up)]
        wsum == SumOver(wf, offs)
        v    == getImagePixelU8(source, x, y)
        hbin == histFold(0, [k \in 1 .. Cardinality(offs) |-> wf[SetToSeq(offs)[k]]])
        r    == cdfWalk(v, hbin, wsum)
    IN  [wsum |-> wsum, hsum |-> hbin, contrib |-> r.contrib, wcontrib |-> r.wcontrib]

\* the byte EM_Step leaves in the pixel (x, y) of the target device: nan is
\* what the conversion of the float NaN (0/0) to a byte yields
votedPixel(source, target, nnf, radius, upscaled, x, y, up, nan) ==
    LET r == voteSums(source, nnf, radius, upscaled, x, y, up)
    IN  IF r.wsum < SimUnit THEN target.imageDev.px[<<x, y>>]
        ELSE IF r.wcontrib = 0 THEN nan
        ELSE r.contrib \div r.wcontrib

\* EM_Step(source, target, nnf, upscaled): every pixel of the target device is
\* rewritten through setImagePixels; the caches of target are left as they are
EM_Step(source, target, nnf, radius, upscaled, up, nan) ==
    [target EXCEPT !.imageDev.px =
        [p \in Cells(size(target).w, size(target).h) |->
            votedPixel(source, target, nnf, radius, upscaled, p[1], p[2], up, nan)]]

\* ------------------------------------------------------------ state of Inpaint::patch
VARIABLES
    pc,         \* position in Inpaint::patch and the functions it calls
    radius,     \* Inpaint::radius
    initial,    \* Inpaint::initial
    source,     \* patch(): source
    pyramid,    \* Inpaint::pyramid; pyramid[k + 1] is pyramid.at(k)
    target,     \* patch(): target
    nnf,        \* Inpaint::nnf_TargetToSource
    maxlevel,   \* patch(): maxlevel
    level,      \* patch(): level
    emloop,     \* ExpectationMaximization(): emloop
    newtarget,  \* ExpectationMaximization(): newtarget, NoImage for nullptr
    pass,       \* minimize(): i
    cx, cy,     \* the cell of the running loop (randomize, initialize, minimize)
    dir,        \* minimizeLink(): dir
    wi,         \* minimizeLink(): wi
    xpi, ypi,   \* minimizeLink(): xpi, ypi
    iter,       \* initialize(): iter
    call        \* SpecCalls: one call of a function, its arguments and result

patchVars == <<pc, radius, initial, source, pyramid, target, nnf, maxlevel, level,
               emloop, newtarget, pass, cx, cy, dir, wi, xpi, ypi, iter>>

vars == <<patchVars, call>>

imageVars == <<initial, source, pyramid, target>>
levelVars == <<maxlevel, level, emloop, newtarget>>
scanVars  == <<pass, cx, cy, dir>>
linkVars  == <<wi, xpi, ypi, iter>>

\* the pyramid is cut at this length: with radius < 1 the loop of patch()
\* may never end
MaxPyramid == 4

\* ------------------------------------------------------------ inputs
ImageKinds == {"flat", "stripes"}

\* the colour byte of the input image at (x, y)
inputPixel(kind, x, y) ==
    IF kind = "flat" THEN 128 ELSE IF x % 2 = 0 THEN 0 ELSE 255

inputDev(kind, w, h) ==
    [w |-> w, h |-> h, px |-> [p \in Cells(w, h) |-> inputPixel(kind, p[1], p[2])]]

\* the mask device: 0 at the holes (a hole is a byte < 128), 255 elsewhere
inputMask(w, h, holes) ==
    [w |-> w, h |-> h,
     px |-> [p \in Cells(w, h) |-> IF p \in holes THEN 0 ELSE 255]]

\* the hole sets tried: none, every pixel, the first pixel, the last pixel
HoleSets(w, h) ==
    {{}, Cells(w, h), Cells(w, h) \cap {<<0, 0>>}, Cells(w, h) \cap {<<w - 1, h - 1>>}}

\* the mask devices tried for an image of w x h pixels: one of the size of
\* the image with one of the hole sets, or one without holes that is a
\* column narrower than the image
MaskDevs(w, h) ==
    {inputMask(w, h, holes) : holes \in HoleSets(w, h)} \cup {inputMask(w - 1, h, {})}

NoCall == [op |-> "none", done |-> FALSE]

InitPatch ==
    /\ pc = "new"
    /\ radius = 0
    /\ initial = NoImage
    /\ source = NoImage
    /\ pyramid = << >>
    /\ target = NoImage
    /\ nnf = NoNNF
    /\ maxlevel = 0
    /\ level = 0
    /\ emloop = 0
    /\ newtarget = NoImage
    /\ pass = 0
    /\ cx = 0 /\ cy = 0 /\ dir = 1
    /\ wi = 0 /\ xpi = 0 /\ ypi = 0 /\ iter = 0

Init ==
    /\ InitPatch
    /\ call = NoCall

\* Inpaint::Inpaint(dev, devMask, _radius) validates nothing: every radius
\* and every pair of devices is taken
accepted(dev, devMask, r) == TRUE

\* Inpaint::Inpaint(dev, devMask, _radius), then patchImage calls patch(); the
\* image is at most maxw x maxh pixels and the radius at most maxr
ConstructUpTo(maxw, maxh, maxr) ==
    /\ pc = "new"
    /\ \E w \in 1 .. maxw, h \in 1 .. maxh, kind \in ImageKinds, r \in 0 .. maxr :
         \E devMask \in MaskDevs(w, h) :
            /\ initial' = MaskedImage(inputDev(kind, w, h), devMask)
            /\ radius' = r
            /\ pc' = IF accepted(inputDev(kind, w, h), devMask, r)
                     THEN "patch" ELSE "rejected"
    /\ UNCHANGED <<source, pyramid, target, nnf, levelVars, scanVars, linkVars>>

Construct == ConstructUpTo(MaxW, MaxH, MaxRadius)

\* patch(): source = initial->clone(); pyramid.append(initial)
PatchBegin ==
    /\ pc = "patch"
    /\ source' = clone(initial)
    /\ pyramid' = <<initial>>
    /\ pc' = "pyramid"
    /\ UNCHANGED <<radius, initial, target, nnf, levelVars, scanVars, linkVars>>

\* the loop condition without "if (source->countMasked() == 0) break"; used
\* as the mutant of pyramidContinues
pyramidContinuesNoBreak ==
    /\ size(source).w > radius
    /\ size(source).h > radius

\* the loop condition with >= for >; used as the mutant of pyramidContinues
pyramidContinuesAtRadius ==
    /\ size(source).w >= radius
    /\ size(source).h >= radius
    /\ countMasked(source) # 0

\* the condition of the while loop of patch() together with its break
pyramidContinues ==
    /\ size(source).w > radius
    /\ size(source).h > radius
    /\ countMasked(source) # 0

\* one iteration of the pyramid loop
PyramidDownsample ==
    /\ pc = "pyramid"
    /\ pyramidContinues
    /\ Len(pyramid) < MaxPyramid
    /\ source' = downsample2x(source)
    /\ pyramid' = Append(pyramid, clone(source'))
    /\ UNCHANGED <<pc, radius, initial, target, nnf, levelVars, scanVars, linkVars>>

\* the loop is left; target = source->clone(); target->clearMask()
TargetInit ==
    /\ pc = "pyramid"
    /\ ~pyramidContinues
    /\ maxlevel' = Len(pyramid)
    /\ level' = Len(pyramid) - 1
    /\ target' = clearMask(clone(source))
    /\ pc' = "level"
    /\ UNCHANGED <<radius, initial, source, pyramid, nnf, emloop, newtarget,
                   scanVars, linkVars>>

\* ------------------------------------------------------------ the level loop
\* the next cell of a row-major loop over the field, <<0, H>> past the end
nextCell(x, y) ==
    IF x + 1 < nnf.imSize.w THEN <<x + 1, y>> ELSE <<0, y + 1>>

\* level == maxlevel - 1: nnf_TargetToSource = new NearestNeighborField(target,
\* source, radius); randomize() begins
RandomizeBegin ==
    /\ pc = "level"
    /\ level >= 1
    /\ level = maxlevel - 1
    /\ source' = pyramid[level + 1]
    /\ nnf' = NearestNeighborField(target, pyramid[level + 1])
    /\ cx' = 0 /\ cy' = 0
    /\ pc' = "randomize"
    /\ UNCHANGED <<radius, initial, pyramid, target, levelVars, pass, dir, linkVars>>

\* randomize(), one cell of its loop: a random link and the distance MAX_DIST
RandomizeCell ==
    /\ pc = "randomize"
    /\ cy < nnf.imSize.h
    /\ \E rx \in 0 .. nnf.imSize.w - 1, ry \in 0 .. nnf.imSize.h - 1 :
          nnf' = [nnf EXCEPT !.field[<<cx, cy>>] = NNPixel(rx, ry, MAX_DIST)]
    /\ cx' = nextCell(cx, cy)[1]
    /\ cy' = nextCell(cx, cy)[2]
    /\ UNCHANGED <<pc, radius, imageVars, levelVars, pass, dir, linkVars>>

\* randomize(): the loop is over, initialize() is called
RandomizeEnd ==
    /\ pc = "randomize"
    /\ cy >= nnf.imSize.h
    /\ cx' = 0 /\ cy' = 0
    /\ pc' = "initialize"
    /\ UNCHANGED <<radius, imageVars, nnf, levelVars, pass, dir, linkVars>>

\* level < maxlevel - 1: new_nnf->initialize(*nnf_TargetToSource), its first
\* loop; initialize() is called next
InitializeFromCoarser ==
    /\ pc = "level"
    /\ level >= 1
    /\ level # maxlevel - 1
    /\ source' = pyramid[level + 1]
    /\ nnf' = initializeFrom(NearestNeighborField(target, pyramid[level + 1]), nnf)
    /\ cx' = 0 /\ cy' = 0
    /\ pc' = "initialize"
    /\ UNCHANGED <<radius, initial, pyramid, target, levelVars, pass, dir, linkVars>>

\* initialize(void), one cell: the distance of the stored link
InitializeCell ==
    /\ pc = "initialize"
    /\ cy < nnf.imSize.h
    /\ nnf' = [nnf EXCEPT !.field[<<cx, cy>>].distance =
                  distance(nnf, radius, cx, cy,
                           nnf.field[<<cx, cy>>].x, nnf.field[<<cx, cy>>].y)]
    /\ iter' = 0
    /\ pc' = "retry"
    /\ UNCHANGED <<radius, imageVars, levelVars, scanVars, wi, xpi, ypi>>

\* the condition of the retry loop of initialize(void)
retryContinues ==
    /\ nnf.field[<<cx, cy>>].distance = MAX_DIST
    /\ iter < maxretry

\* one resample of the retry loop
Retry ==
    /\ pc = "retry"
    /\ retryContinues
    /\ \E rx \in 0 .. nnf.imSize.w - 1, ry \in 0 .. nnf.imSize.h - 1 :
          nnf' = [nnf EXCEPT !.field[<<cx, cy>>] =
                     NNPixel(rx, ry, distance(nnf, radius, cx, cy, rx, ry))]
    /\ iter' = iter + 1
    /\ UNCHANGED <<pc, radius, imageVars, levelVars, scanVars, wi, xpi, ypi>>

\* the retry loop is left (iter goes out of scope): the next cell
RetryEnd ==
    /\ pc = "retry"
    /\ ~retryContinues
    /\ cx' = nextCell(cx, cy)[1]
    /\ cy' = nextCell(cx, cy)[2]
    /\ iter' = 0
    /\ pc' = "initialize"
    /\ UNCHANGED <<radius, imageVars, nnf, levelVars, pass, dir, wi, xpi, ypi>>

\* initialize(void) returns; patch() calls ExpectationMaximization(level)
InitializeEnd ==
    /\ pc = "initialize"
    /\ cy >= nnf.imSize.h
    /\ emloop' = 1
    /\ newtarget' = NoImage
    /\ pc' = "em"
    /\ UNCHANGED <<radius, imageVars, nnf, maxlevel, level, scanVars, linkVars>>

\* the loop of patch() is over: return target
Return ==
    /\ pc = "level"
    /\ level < 1
    /\ pc' = "done"
    /\ UNCHANGED <<radius, imageVars, nnf, levelVars, scanVars, linkVars>>

\* ------------------------------------------------------------ ExpectationMaximization
iterEM == Min(2 * level, 4)
iterNNF == Min(5, level)

\* the head of the EM loop: the new target of the previous iteration becomes
\* the input of the field, then minimize(iterNNF) is called
EMLoop ==
    /\ pc = "em"
    /\ emloop <= iterEM
    /\ nnf' = IF newtarget # NoImage THEN [nnf EXCEPT !.input = newtarget] ELSE nnf
    /\ newtarget' = NoImage
    /\ pass' = 0
    /\ pc' = "minimize"
    /\ UNCHANGED <<radius, imageVars, maxlevel, level, emloop, cx, cy, dir, linkVars>>

\* ExpectationMaximization returns newtarget; patch() goes to the next level
EMReturn ==
    /\ pc = "em"
    /\ emloop > iterEM
    /\ target' = newtarget
    /\ newtarget' = NoImage
    /\ emloop' = 0
    /\ level' = level - 1
    /\ pc' = "level"
    /\ UNCHANGED <<radius, initial, source, pyramid, nnf, maxlevel, scanVars, linkVars>>

\* minimize(pass): one more pass begins with the forward scan at (min_x, min_y)
MinimizePass ==
    /\ pc = "minimize"
    /\ pass < iterNNF
    /\ cx' = 0 /\ cy' = 0 /\ dir' = 1
    /\ pc' = "forward"
    /\ UNCHANGED <<radius, imageVars, nnf, levelVars, pass, linkVars>>

\* a forward scan over every row; used as the mutant of forwardRows
forwardRowsAll == nnf.imSize.h

\* the rows the forward scan visits: "for (int y = min_y; y < max_y; y++)"
\* with max_y = imSize.height() - 1
forwardRows == nnf.imSize.h - 1

\* the cell after (cx, cy) in the running scan
nextScanCell ==
    IF dir = 1 THEN nextCell(cx, cy)
    ELSE IF cx - 1 >= 0 THEN <<cx - 1, cy>> ELSE <<nnf.imSize.w - 1, cy - 1>>

\* forward scan: "for (y = min_y; y < max_y; y++) for (x = min_x; x <= max_x;
\* x++) if (field[x][y].distance > 0) minimizeLink(x, y, 1)"
ForwardVisit ==
    /\ pc = "forward"
    /\ cy < forwardRows
    /\ IF nnf.field[<<cx, cy>>].distance > 0
       THEN /\ pc' = "propagateH"
            /\ UNCHANGED <<cx, cy>>
       ELSE /\ pc' = "forward"
            /\ cx' = nextScanCell[1]
            /\ cy' = nextScanCell[2]
    /\ UNCHANGED <<radius, imageVars, nnf, levelVars, pass, dir, linkVars>>

\* the forward scan is over: the reverse scan begins at (max_x, max_y)
ForwardEnd ==
    /\ pc = "forward"
    /\ cy >= forwardRows
    /\ cx' = nnf.imSize.w - 1
    /\ cy' = nnf.imSize.h - 1
    /\ dir' = -1
    /\ pc' = "reverse"
    /\ UNCHANGED <<radius, imageVars, nnf, levelVars, pass, linkVars>>

\* reverse scan: "if (field[x][y].distance) minimizeLink(x, y, -1)"
ReverseVisit ==
    /\ pc = "reverse"
    /\ cy >= 0
    /\ IF nnf.field[<<cx, cy>>].distance # 0
       THEN /\ pc' = "propagateH"
            /\ UNCHANGED <<cx, cy>>
       ELSE /\ pc' = "reverse"
            /\ cx' = nextScanCell[1]
            /\ cy' = nextScanCell[2]
    /\ UNCHANGED <<radius, imageVars, nnf, levelVars, pass, dir, linkVars>>

\* the reverse scan is over: the pass is complete
ReverseEnd ==
    /\ pc = "reverse"
    /\ cy < 0
    /\ pass' = pass + 1
    /\ cx' = 0 /\ cy' = 0 /\ dir' = 1
    /\ pc' = "minimize"
    /\ UNCHANGED <<radius, imageVars, nnf, levelVars, linkVars>>

\* ------------------------------------------------------------ minimizeLink
\* the scan goes on after minimizeLink(cx, cy, dir) has returned
scanOn ==
    /\ cx' = nextScanCell[1]
    /\ cy' = nextScanCell[2]
    /\ pc' = IF dir = 1 THEN "forward" ELSE "reverse"

\* the candidate of the horizontal propagation
candidateH == <<nnf.field[<<cx - dir, cy>>].x + dir, nnf.field[<<cx - dir, cy>>].y>>

\* the vertical candidate taken from the neighbour nnf[x, y - dir]; used as
\* the mutant of candidateV
candidateVNeighbour ==
    <<nnf.field[<<cx, cy>>].x, nnf.field[<<cx, cy - dir>>].y + dir>>

\* the candidate of the vertical propagation: "xp = field[x][y].x; yp =
\* field[x][y].y + dir"
candidateV == <<nnf.field[<<cx, cy>>].x, nnf.field[<<cx, cy>>].y + dir>>

\* the window left as it is; used as the mutant of nextWindow
nextWindowSame(w) == w

\* "wi /= 2"
nextWindow(w) == w \div 2

\* Propagation Left/Right
PropagateH ==
    /\ pc = "propagateH"
    /\ nnf' = IF cx - dir > 0 /\ cx - dir < nnf.imSize.w
              THEN tryCandidate(nnf, radius, cx, cy, candidateH[1], candidateH[2])
              ELSE nnf
    /\ pc' = "propagateV"
    /\ UNCHANGED <<radius, imageVars, levelVars, scanVars, linkVars>>

\* Propagation Up/Down; the random search begins with wi = output width
PropagateV ==
    /\ pc = "propagateV"
    /\ nnf' = IF cy - dir > 0 /\ cy - dir < nnf.imSize.h
              THEN tryCandidate(nnf, radius, cx, cy, candidateV[1], candidateV[2])
              ELSE nnf
    /\ wi' = size(nnf.output).w
    /\ xpi' = nnf'.field[<<cx, cy>>].x
    /\ ypi' = nnf'.field[<<cx, cy>>].y
    /\ pc' = "search"
    /\ UNCHANGED <<radius, imageVars, levelVars, scanVars, iter>>

\* Random search, one iteration of "while (wi > 0)"
RandomSearch ==
    /\ pc = "search"
    /\ wi > 0
    /\ \E rx \in 0 .. 2 * wi - 1, ry \in 0 .. 2 * wi - 1 :
          nnf' = tryCandidate(nnf, radius, cx, cy,
                              clampCoord(xpi + rx - wi, size(nnf.output).w),
                              clampCoord(ypi + ry - wi, size(nnf.output).h))
    /\ wi' = nextWindow(wi)
    /\ UNCHANGED <<pc, radius, imageVars, levelVars, scanVars, xpi, ypi, iter>>

\* the random search is over; minimizeLink returns and the scan goes on
SearchEnd ==
    /\ pc = "search"
    /\ wi <= 0
    /\ scanOn
    /\ xpi' = 0 /\ ypi' = 0
    /\ UNCHANGED <<radius, imageVars, nnf, levelVars, pass, dir, wi, iter>>

\* ------------------------------------------------------------ the EM step of the loop
\* "if (level >= 1 && (emloop == iterEM))": the last iteration builds the new
\* target from the next finer source
emUpscaled == level >= 1 /\ emloop = iterEM

\* newsource
emSource == IF emUpscaled THEN pyramid[level] ELSE pyramid[level + 1]

\* newtarget before EM_Step: the upscaled target, or a clone of the target
emTarget ==
    IF emUpscaled THEN upscale(target, size(emSource).w, size(emSource).h)
                  ELSE clone(target)

\* minimize returned; newsource and newtarget are set, then EM_Step
Rebuild ==
    /\ pc = "minimize"
    /\ pass >= iterNNF
    /\ \E up \in BOOLEAN, nan \in {0, 255} :
          newtarget' = EM_Step(emSource, emTarget, nnf, radius, emUpscaled, up, nan)
    /\ emloop' = emloop + 1
    /\ pass' = 0
    /\ pc' = "em"
    /\ UNCHANGED <<radius, imageVars, nnf, maxlevel, level, cx, cy, dir, linkVars>>

NextPatch ==
    \/ Construct \/ PatchBegin \/ PyramidDownsample \/ TargetInit
    \/ RandomizeBegin \/ RandomizeCell \/ RandomizeEnd
    \/ InitializeFromCoarser \/ InitializeCell \/ Retry \/ RetryEnd \/ InitializeEnd
    \/ EMLoop \/ EMReturn
    \/ MinimizePass \/ ForwardVisit \/ ForwardEnd \/ ReverseVisit \/ ReverseEnd
    \/ PropagateH \/ PropagateV \/ RandomSearch \/ SearchEnd
    \/ Rebuild \/ Return

Next == NextPatch /\ UNCHANGED call

Spec == Init /\ [][Next]_vars

\* ------------------------------------------------------------ the pyramid alone
\* SpecPyramid: patch() from the constructor to the loop over the levels, on
\* images of up to MaxPyrW x MaxPyrW pixels; the run ends at the return of
\* patch() when the loop over the levels has no iteration, and at the head
\* of that loop otherwise.
MaxPyrW == 7
MaxPyrRadius == 7

ConstructPyramid == ConstructUpTo(MaxPyrW, MaxPyrW, MaxPyrRadius)

NextPyramid ==
    /\ \/ ConstructPyramid \/ PatchBegin \/ PyramidDownsample \/ TargetInit \/ Return
    /\ UNCHANGED call

SpecPyramid == Init /\ [][NextPyramid]_vars

\* ------------------------------------------------------------ single calls
\* SpecCalls: alignRectBy2 (as downsample2x calls it), distance and upscale,
\* each called once on arguments drawn from bounded sets.
MaxCallW == 2

CallImages(w, h) ==
    {MaskedImage(inputDev(kind, w, h), inputMask(w, h, holes)) :
        kind \in ImageKinds, holes \in HoleSets(w, h)}

\* the call is alignRectBy2 as downsample2x makes it, on a rectangle
AlignCalls ==
    \E x \in -MaxCoord .. MaxCoord, y \in -MaxCoord .. MaxCoord,
       w \in 1 .. MaxCoord, h \in 1 .. MaxCoord :
        call = [op |-> "align", done |-> FALSE, x |-> x, y |-> y, w |-> w, h |-> h]

\* the call is distance(x, y, xp, yp) of a field over two images of one size,
\* the source centre (xp, yp) in the source or one pixel out of it
DistanceCalls ==
    \E w \in 1 .. MaxCallW, h \in 1 .. MaxCallW, r \in 0 .. MaxRadius :
        \E i \in CallImages(w, h), o \in CallImages(w, h), p \in Cells(w, h),
           xp \in -1 .. w, yp \in -1 .. h :
            call = [op |-> "distance", done |-> FALSE, input |-> i, output |-> o,
                    patchSize |-> r, x |-> p[1], y |-> p[2], xp |-> xp, yp |-> yp]

\* the call is upscale(xsize, ysize) on an image not larger than the request
UpscaleCalls ==
    \E w \in 1 .. MaxCallW, h \in 1 .. MaxCallW :
        \E xs \in w .. 2 * MaxCallW, ys \in h .. 2 * MaxCallW :
            call = [op |-> "upscale", done |-> FALSE,
                    image |-> MaskedImage(inputDev("stripes", w, h), inputMask(w, h, {})),
                    xsize |-> xs, ysize |-> ys]

InitCalls ==
    /\ InitPatch
    /\ (AlignCalls \/ DistanceCalls \/ UpscaleCalls)

\* downsample2x up to the sizes of the new devices: the aligned rectangle
\* and dstWidth, dstHeight
CallAlign ==
    /\ call.op = "align"
    /\ ~call.done
    /\ LET r == alignRectBy2(call.x, call.y, call.w, call.h)
       IN  call' = [call EXCEPT !.done = TRUE] @@
                   [aligned |-> r, dstWidth |-> r.w \div 2, dstHeight |-> r.h \div 2]
    /\ UNCHANGED patchVars

CallDistance ==
    /\ call.op = "distance"
    /\ ~call.done
    /\ call' = [call EXCEPT !.done = TRUE] @@
               [result |-> distance(NearestNeighborField(call.input, call.output),
                                    call.patchSize, call.x, call.y, call.xp, call.yp)]
    /\ UNCHANGED patchVars

CallUpscale ==
    /\ call.op = "upscale"
    /\ ~call.done
    /\ call' = [call EXCEPT !.done = TRUE] @@
               [result |-> upscale(call.image, call.xsize, call.ysize)]
    /\ UNCHANGED patchVars

NextCalls == CallAlign \/ CallDistance \/ CallUpscale

SpecCalls == InitCalls /\ [][NextCalls]_vars

\* ------------------------------------------------------------ initialize(coarser)
\* SpecInitialize: patch() as in Spec, where the coarser field of
\* initialize(nnf) is the small one of the level before, and beside it single
\* calls of the first loop of initialize(nnf) on a new field of Wf x Hf entries
\* and a coarser field of Wc x Hc <= Wf x Hf entries with drawn links.
CoarserCalls ==
    \E wc \in 1 .. MaxCallW, hc \in 1 .. MaxCallW :
        \E wf \in wc .. 2 * MaxCallW, hf \in hc .. 2 * MaxCallW :
            \E links \in [Cells(wc, hc) -> Cells(wc, hc)] :
                LET image(w, h) == MaskedImage(inputDev("flat", w, h), inputMask(w, h, {}))
                    old == NearestNeighborField(image(wc, hc), image(wc, hc))
                IN  call = [op |-> "initialize", done |-> FALSE,
                            new |-> NearestNeighborField(image(wf, hf), image(wf, hf)),
                            coarser |-> [old EXCEPT !.field =
                                [p \in DOMAIN old.field |->
                                    NNPixel(links[p][1], links[p][2], 0)]]]

InitInitialize ==
    /\ InitPatch
    /\ (call = NoCall \/ CoarserCalls)

\* new_nnf->initialize(*nnf_TargetToSource) up to its call of initialize()
CallInitializeFrom ==
    /\ call.op = "initialize"
    /\ ~call.done
    /\ call' = [call EXCEPT !.done = TRUE] @@
               [result |-> initializeFrom(call.new, call.coarser)]
    /\ UNCHANGED patchVars

\* patch() runs where no single call was drawn
NextInitialize == (call = NoCall /\ Next) \/ CallInitializeFrom

SpecInitialize == InitInitialize /\ [][NextInitialize]_vars

\* ------------------------------------------------------------ one EM_Step
\* SpecEM: the call of EM_Step that ExpectationMaximization(1) makes in patch()
\* on a square image with one hole pixel.  The pyramid has two levels (the
\* hole is gone after one downsample2x), the target is the cleared clone of
\* the coarse level, and the field is one that initialize() may leave: every
\* link is drawn, here by one shift for all entries, and its distance is the
\* one distance() computes.  minimize() changes no entry of distance 0.
MaxEMW == 8

\* the side lengths tried: even, so that downsample2x halves them exactly
EMSizes == {n \in 6 .. MaxEMW : n % 2 = 0}

\* the hole pixels tried
EMHoles(n) == {<<0, 0>>, <<1, 1>>, <<n - 1, n - 1>>}

\* the shifts the links are drawn by
EMShifts == {<<0, 0>>, <<1, 0>>, <<-1, 0>>, <<0, 1>>, <<0, -1>>}

\* the field over (input, output) whose entry p links to p + shift, cut to
\* the image as random_int(imSize) cuts it
shiftedField(input, output, r, shift) ==
    LET n0 == NearestNeighborField(input, output)
    IN  [n0 EXCEPT !.field =
            [p \in DOMAIN n0.field |->
                LET xp == Max(0, Min(n0.imSize.w - 1, p[1] + shift[1]))
                    yp == Max(0, Min(n0.imSize.h - 1, p[2] + shift[2]))
                IN  NNPixel(xp, yp, distance(n0, r, p[1], p[2], xp, yp))]]

\* the arguments of EM_Step in ExpectationMaximization(1): in the last
\* iteration (upscaled) the source is pyramid.at(0) and the target the
\* upscaled target, before it the source is pyramid.at(1) and the target a
\* clone
EMCalls ==
    \E n \in EMSizes, kind \in ImageKinds, r \in 1 .. MaxRadius,
       shift \in EMShifts, upscaled \in BOOLEAN :
        \E hole \in EMHoles(n) :
            LET image  == MaskedImage(inputDev(kind, n, n), inputMask(n, n, {hole}))
                coarse == downsample2x(clone(image))
                tgt    == clearMask(clone(coarse))
            IN  call = [op |-> "em", done |-> FALSE, initial |-> image,
                        radius |-> r, upscaled |-> upscaled,
                        source |-> IF upscaled THEN image ELSE coarse,
                        target |-> IF upscaled THEN upscale(tgt, n, n) ELSE clone(tgt),
                        nnf |-> shiftedField(tgt, coarse, r, shift)]

InitEM ==
    /\ InitPatch
    /\ EMCalls

\* EM_Step(newsource, newtarget, nnf_TargetToSource, upscaled); sums keeps
\* wsum, contrib and wcontrib of every target pixel
CallEMStep ==
    /\ call.op = "em"
    /\ ~call.done
    /\ \E up \in BOOLEAN, nan \in {0, 255} :
         call' = [call EXCEPT !.done = TRUE] @@
                 [result |-> EM_Step(call.source, call.target, call.nnf, call.radius,
                                     call.upscaled, up, nan),
                  sums |-> [p \in Cells(size(call.target).w, size(call.target).h) |->
                               voteSums(call.source, call.nnf, call.radius,
                                        call.upscaled, p[1], p[2], up)]]
    /\ UNCHANGED patchVars

NextEM == CallEMStep

SpecEM == InitEM /\ [][NextEM]_vars

\* ------------------------------------------------------------ claims
\* the positions of minimize() and of the EM loop around it, where the
\* field is complete
MinimizePCs == {"minimize", "forward", "reverse", "propagateH", "propagateV", "search"}
FieldPCs == MinimizePCs \cup {"em"}

\* the positions after "target->clearMask()"
AfterClearPCs == FieldPCs \cup {"level", "randomize", "initialize", "retry", "done"}

hasHole(m) == countMasked(m) > 0

\* C1: for an input with at least one hole pixel and a radius >= 1, the
\* image patch() returns has the width and the height of the input image.
C1_SameBounds ==
    (pc = "done" /\ radius >= 1 /\ hasHole(initial))
        => size(target) = size(initial)

\* C2: when the mask marks no hole pixel, patch() builds a pyramid of
\* length 1, never enters the NNF or the EM loop, and returns an image whose
\* every pixel equals the input image.
C2_NoHoleIdentity ==
    (pc # "new" /\ ~hasHole(initial))
        => /\ pc \in {"patch", "pyramid", "level", "done"}
           /\ Len(pyramid) <= 1
           /\ pc \in {"level", "done"} => Len(pyramid) = 1
           /\ pc = "done" => /\ target.imageDev = initial.imageDev
                             /\ target.imageCache = initial.imageCache

\* C2 witness: patch() has returned for an input without a hole that is
\* larger than the radius, so that the break on countMasked() ended the loop
C2_Witness ==
    /\ pc = "done"
    /\ ~hasHole(initial)
    /\ radius >= 1
    /\ size(initial).w > radius
    /\ size(initial).h > radius

\* whether every entry of the field links into the source and holds a
\* distance of [0, MAX_DIST]
linksInRange ==
    \A p \in DOMAIN nnf.field :
        /\ nnf.field[p].x >= 0 /\ nnf.field[p].x < size(nnf.output).w
        /\ nnf.field[p].y >= 0 /\ nnf.field[p].y < size(nnf.output).h
        /\ nnf.field[p].distance >= 0 /\ nnf.field[p].distance <= MAX_DIST

\* C3: once randomize() or initialize(coarser) has completed, and after every
\* step of minimize (each propagation step of minimizeLink included), every
\* entry satisfies 0 <= sx < source.W, 0 <= sy < source.H, 0 <= d <= 65535.
C3_LinksInRange == pc \in FieldPCs => linksInRange

\* a step taken inside minimize: no distance grows and an entry changes only
\* to a strictly smaller distance
minimizeStepMonotone ==
    pc \in MinimizePCs =>
        \A p \in DOMAIN nnf.field :
            /\ nnf'.field[p].distance <= nnf.field[p].distance
            /\ (nnf'.field[p] # nnf.field[p]
                   => nnf'.field[p].distance < nnf.field[p].distance)

\* C4: during minimize no stored distance increases from one step to the
\* next, and an entry changes only when the candidate's distance is strictly
\* smaller than the stored one (an equal distance leaves it unchanged).
C4_Monotone == [][minimizeStepMonotone]_vars

\* C4 witness: the random search of minimizeLink has replaced the link it
\* started from
C4_Witness ==
    /\ pc = "search"
    /\ <<nnf.field[<<cx, cy>>].x, nnf.field[<<cx, cy>>].y>> # <<xpi, ypi>>

\* the position of patch() in its loops as a tuple of naturals, most
\* significant first: the stage, the pyramid size or the level, the part of
\* the level, the EM iterations left, the minimize passes left, the cells left
\* to scan, the step inside minimizeLink, the retries or the window left
loopPosition ==
    LET W == nnf.imSize.w
        H == nnf.imSize.h
        fwd == W * H - (cy * W + cx)
        rev == cy * W + cx + 1
        scan == IF dir = 1 THEN W * H + 1 + fwd ELSE rev
        emLeft == iterEM + 1 - emloop
        passLeft == iterNNF - pass
    IN  CASE pc = "patch"      -> <<3, 0, 0, 0, 0, 0, 0, 0, 0>>
          [] pc = "pyramid"    -> <<2, size(source).w + size(source).h, 0, 0, 0, 0, 0, 0, 0>>
          [] pc = "level"      -> <<1, level, 4, 0, 0, 0, 0, 0, 0>>
          [] pc = "randomize"  -> <<1, level, 3, fwd, 0, 0, 0, 0, 0>>
          [] pc = "initialize" -> <<1, level, 2, fwd, maxretry + 2, 0, 0, 0, 0>>
          [] pc = "retry"      -> <<1, level, 2, fwd, maxretry + 1 - iter, 0, 0, 0, 0>>
          [] pc = "em"         -> <<1, level, 1, emLeft, 2, 0, 0, 0, 0>>
          [] pc = "minimize"   -> <<1, level, 1, emLeft, 1, passLeft, 2 * W * H + 3, 0, 0>>
          [] pc = "forward"    -> <<1, level, 1, emLeft, 1, passLeft, scan, 4, 0>>
          [] pc = "reverse"    -> <<1, level, 1, emLeft, 1, passLeft, scan, 4, 0>>
          [] pc = "propagateH" -> <<1, level, 1, emLeft, 1, passLeft, scan, 3, 0>>
          [] pc = "propagateV" -> <<1, level, 1, emLeft, 1, passLeft, scan, 2, 0>>
          [] pc = "search"     -> <<1, level, 1, emLeft, 1, passLeft, scan, 1, wi>>
          [] OTHER             -> <<0, 0, 0, 0, 0, 0, 0, 0, 0>>

\* s comes before t in the lexicographic order
lexLess(s, t) ==
    \E i \in 1 .. Len(s) :
        /\ s[i] < t[i]
        /\ \A j \in 1 .. i - 1 : s[j] = t[j]

\* patch() is running with a radius >= 1
running == radius >= 1 /\ pc \notin {"new", "done", "rejected"}

\* a next step of patch() exists: the guards of the steps at each position
\* (the other positions have a step for either outcome of their condition)
stepExists ==
    CASE pc = "pyramid"   -> ~pyramidContinues \/ Len(pyramid) < MaxPyramid
      [] pc = "randomize" -> cy >= nnf.imSize.h \/ nnf.imSize.w >= 1
      [] pc = "retry"     -> ~retryContinues \/ (nnf.imSize.w >= 1 /\ nnf.imSize.h >= 1)
      [] pc = "search"    -> wi <= 0 \/ 2 * wi - 1 >= 0
      [] OTHER            -> TRUE

\* C5: for every input and radius >= 1 patch() terminates.  While it runs a
\* next step always exists and every step takes the position in the loops
\* (a tuple of naturals) strictly down in the lexicographic order, so no run
\* is infinite; no retry loop resamples more than 20 times and the window of
\* the random search ends at 0, never below.
C5_Terminates ==
    [][/\ running => lexLess(loopPosition', loopPosition)
       /\ running' => stepExists'
       /\ running' => \A i \in 1 .. Len(loopPosition') : loopPosition'[i] >= 0
       /\ iter' <= maxretry /\ wi' >= 0]_vars

\* C5 witness: patch() has returned for a fully masked image after it went
\* through the pyramid, the field and the EM loop
C5_Witness ==
    /\ pc = "done"
    /\ radius >= 1
    /\ countMasked(initial) = size(initial).w * size(initial).h
    /\ Len(pyramid) >= 2

\* C6: after clearMask() no pixel of the object is masked, nor of any clone
\* made from it, and the image is unchanged: the initial target of patch(),
\* the input of the field and every new target of the EM loop have no
\* masked pixel.
C6_ClearMaskClears ==
    pc \in AfterClearPCs
        => /\ ~hasHole(target)
           /\ ~hasHole(newtarget)
           /\ pc \in FieldPCs => ~hasHole(nnf.input)
           /\ (pc = "level" /\ level = maxlevel - 1)
                 => target.imageDev = pyramid[maxlevel].imageDev

\* whether every offset of the patches of the call is penalised
allPenalised ==
    \A o \in Offsets(call.patchSize) :
        penalised(NearestNeighborField(call.input, call.output),
                  call.x, call.y, call.xp, call.yp, o[1], o[2])

\* C7: distance returns an integer of [0, 65535] for every target centre,
\* source centre (in or out of bounds), radius and mask; it returns 65535
\* when every patch offset is penalised.
C7_DistanceRange ==
    (call.op = "distance" /\ call.done)
        => /\ call.result \in 0 .. MAX_DIST
           /\ allPenalised => call.result = MAX_DIST

\* C7 witness: a call with a source centre out of bounds, some offsets
\* penalised and some not
C7_Witness ==
    /\ call.op = "distance"
    /\ call.done
    /\ call.xp = -1
    /\ call.patchSize >= 1
    /\ call.result > 0
    /\ call.result < MAX_DIST

isEven(n) == n % 2 = 0

\* C8: alignRectBy2 yields even x, y, w, h and a rectangle that contains the
\* original one, and downsample2x sizes its result aligned_w/2 by aligned_h/2.
C8_AlignOutwards ==
    (call.op = "align" /\ call.done)
        => /\ isEven(call.aligned.x) /\ isEven(call.aligned.y)
           /\ isEven(call.aligned.w) /\ isEven(call.aligned.h)
           /\ call.aligned.x <= call.x
           /\ call.aligned.y <= call.y
           /\ call.aligned.x + call.aligned.w >= call.x + call.w
           /\ call.aligned.y + call.aligned.h >= call.y + call.h
           /\ call.dstWidth = call.aligned.w \div 2
           /\ call.dstHeight = call.aligned.h \div 2

\* C9: upscale(w, h) with w >= W0 and h >= H0 returns a MaskedImage whose
\* image and mask are exactly w wide and h high.
C9_UpscaleExact ==
    (call.op = "upscale" /\ call.done)
        => /\ size(call.result) = [w |-> call.xsize, h |-> call.ysize]
           /\ DOMAIN call.result.imageCache = Cells(call.xsize, call.ysize)
           /\ DOMAIN call.result.maskCache = Cells(call.xsize, call.ysize)

\* a radius < 1 or a mask device that has not the size of the image
invalidConfig ==
    \/ radius < 1
    \/ initial.maskDev.w # initial.imageDev.w
    \/ initial.maskDev.h # initial.imageDev.h

\* C10: an inpainter with a radius < 1 or a mask of another size
\* than the image is rejected before any pyramid, NNF or EM work, and no
\* output image is produced.
C10_Rejected == (pc # "new" /\ invalidConfig) => pc = "rejected"

\* C11: a flat image (one colour value everywhere) with one hole strictly
\* inside it, radius >= 1: every hole pixel of the image patch() returns has
\* that colour value, give or take 2, whatever the random choices were.  The
\* image patch() returns from a two-level pyramid is the target of the
\* upscaled EM_Step.
C11_FlatHoleKeepsColour ==
    (/\ call.op = "em" /\ call.done /\ call.upscaled
     /\ \A p \in DOMAIN call.initial.imageDev.px : call.initial.imageDev.px[p] = 128
     /\ \A p \in DOMAIN call.initial.imageDev.px :
            isMasked(call.initial, p[1], p[2]) =>
                /\ p[1] > 0 /\ p[1] < size(call.initial).w - 1
                /\ p[2] > 0 /\ p[2] < size(call.initial).h - 1)
    => \A p \in DOMAIN call.initial.imageDev.px :
           isMasked(call.initial, p[1], p[2]) =>
               /\ p \in DOMAIN call.result.imageDev.px
               /\ call.result.imageDev.px[p] >= 128 - 2
               /\ call.result.imageDev.px[p] <= 128 + 2


\* the input is 7 x 7 pixels and has a hole, and patch() is past the pyramid
sevenBySeven ==
    /\ pc \in {"level", "done"}
    /\ size(initial) = [w |-> 7, h |-> 7]
    /\ hasHole(initial)

\* no downsample, a pyramid of length 1, no EM iteration (the loop over the
\* levels runs from maxlevel - 1 down to 1), the result is the clone of the
\* input after clearMask()
noDownsample ==
    /\ source = clone(initial)
    /\ pyramid = <<initial>>
    /\ level < 1 /\ emloop = 0 /\ nnf = NoNNF
    /\ target = clearMask(clone(initial))

\* C12 as stated: for a 7x7 input with at least one hole pixel and radius 3,
\* patch() performs no downsample, the pyramid has length 1, zero EM
\* iterations are run and the result is the mask-cleared clone of the input.
C12_Radius3NoDownsample == (sevenBySeven /\ radius = 3) => noDownsample

\* C12 amended: the same for a 7x7 input with a hole and a radius of 7 or
\* more; with a smaller radius (3 too) the 7x7 level is downsampled.
C12_Radius7NoDownsample ==
    /\ (sevenBySeven /\ radius >= 7) => noDownsample
    /\ (sevenBySeven /\ radius < 7) => Len(pyramid) > 1

C12_Witness == sevenBySeven /\ radius >= 7 /\ pc = "done" /\ noDownsample

\* the level P(k) of the pyramid, k from 0
P(k) == pyramid[k + 1]

\* C13: the pyramid built by patch() has length >= 1 with P(0) the initial
\* input and P(k+1) = downsample2x(P(k)) for every k; every level that was
\* downsampled has min(W, H) > radius and a hole, and once the loop is left
\* the last level has min(W, H) <= radius or no hole.
C13_PyramidInvariant ==
    pc \in {"pyramid", "level", "done"} =>
        /\ Len(pyramid) >= 1
        /\ P(0) = initial
        /\ \A k \in 0 .. Len(pyramid) - 2 :
              /\ P(k + 1) = downsample2x(P(k))
              /\ Min(size(P(k)).w, size(P(k)).h) > radius
              /\ countMasked(P(k)) > 0
        /\ pc \in {"level", "done"} =>
              LET last == P(Len(pyramid) - 1)
              IN  \/ Min(size(last).w, size(last).h) <= radius
                  \/ countMasked(last) = 0

\* a pyramid of three levels or more whose last level still has a hole: the
\* loop stopped at the radius
C13_Witness ==
    /\ pc = "level"
    /\ Len(pyramid) >= 3
    /\ countMasked(P(Len(pyramid) - 1)) > 0
    /\ size(P(Len(pyramid) - 1)).w <= radius

\* one step of the forward scan as C14 states it: while a cell (cx, cy) of
\* the field is left, rows 0 .. H-1, the scan calls minimizeLink on it when
\* its d > 0 and goes to the next cell in row-major order otherwise
forwardScanStep ==
    (pc = "forward" /\ cy < nnf.imSize.h) =>
        IF nnf.field[<<cx, cy>>].distance > 0
        THEN pc' = "propagateH" /\ cx' = cx /\ cy' = cy /\ dir' = 1
        ELSE pc' = "forward" /\ <<cx', cy'>> = nextCell(cx, cy)

\* one step of the reverse scan as C14 states it, from (W-1, H-1) down to
\* (0, 0)
reverseScanStep ==
    /\ (pc = "forward" /\ pc' = "reverse") =>
           cx' = nnf.imSize.w - 1 /\ cy' = nnf.imSize.h - 1
    /\ (pc = "reverse" /\ cy >= 0) =>
           IF nnf.field[<<cx, cy>>].distance # 0
           THEN pc' = "propagateH" /\ cx' = cx /\ cy' = cy /\ dir' = -1
           ELSE pc' = "reverse" /\ <<cx', cy'>> = nextScanCell

\* C14: in each pass of minimize the forward scan calls minimizeLink(x, y, +1)
\* for every pixel of every row 0 .. H-1, the last row included, whose stored
\* d > 0, in row-major order, and then the reverse scan calls
\* minimizeLink(x, y, -1) for every pixel with d # 0 from (W-1, H-1) down to
\* (0, 0).
C14_ScansCoverField == [][forwardScanStep /\ reverseScanStep]_vars

\* the entry (cx, cy) after the vertical propagation as C15 states it: the
\* candidate (own sx, sy of nnf[cx, cy - dir] plus dir) is adopted when its
\* distance is strictly smaller than the stored d, the entry is kept otherwise
verticalFromNeighbour ==
    LET old == nnf.field[<<cx, cy>>]
        sx  == old.x
        sy  == nnf.field[<<cx, cy - dir>>].y + dir
        dp  == distance(nnf, radius, cx, cy, sx, sy)
    IN  IF dp < old.distance THEN NNPixel(sx, sy, dp) ELSE old

\* C15: in minimizeLink, when 0 < y-dir < H, the vertical candidate is the
\* current cell's sx with the sy of the vertically adjacent cell
\* nnf[x, y-dir] plus dir, and it is adopted only if its distance is strictly
\* smaller than the current d.
C15_VerticalFromNeighbour ==
    [][(pc = "propagateV" /\ cy - dir > 0 /\ cy - dir < nnf.imSize.h) =>
           nnf'.field[<<cx, cy>>] = verticalFromNeighbour]_vars

\* C16: in EM_Step, every target pixel whose vote weight wsum is >= 1 ends
\* the walk over the 256 bins with wcontrib > 0, so contrib / wcontrib is no
\* division by zero; the bins of the histogram sum to wsum.
C16_WcontribPositive ==
    (call.op = "em" /\ call.done) =>
        \A p \in DOMAIN call.sums :
            call.sums[p].wsum >= SimUnit =>
                /\ call.sums[p].wcontrib > 0
                /\ call.sums[p].hsum = call.sums[p].wsum

\* the entry (x, y) that C17 gives a field of wf x hf entries from a coarser
\* field: the coarser link at (min(x div xscale, Wc-1), min(y div yscale,
\* Hc-1)) times the scales, with the distance 65535 until it is recomputed
fromCoarser(coarser, wf, hf, x, y) ==
    LET xscale == wf \div coarser.imSize.w
        yscale == hf \div coarser.imSize.h
        c == coarser.field[<<Min(x \div xscale, coarser.imSize.w - 1),
                             Min(y \div yscale, coarser.imSize.h - 1)>>]
    IN  [x |-> c.x * xscale, y |-> c.y * yscale, distance |-> 65535]

\* the first loop of initialize(coarser), in patch() and called alone
initializeScales ==
    /\ (pc = "level" /\ pc' = "initialize") =>
           \A p \in DOMAIN nnf'.field :
               nnf'.field[p] = fromCoarser(nnf, nnf'.imSize.w, nnf'.imSize.h, p[1], p[2])
    /\ (call.op = "initialize" /\ ~call.done /\ call'.done) =>
           \A p \in DOMAIN call'.result.field :
               call'.result.field[p] =
                   fromCoarser(call.coarser, call.new.imSize.w, call.new.imSize.h, p[1], p[2])

\* the link of the entry (cx, cy) is kept and its distance recomputed; it is
\* resampled only while the distance is 65535 and fewer than 20 resamples
\* were made, each resample a link inside the field with its distance; the
\* entry is left as it is once the distance is below 65535 or 20 resamples
\* were made
initializeRetries ==
    LET e == nnf.field[<<cx, cy>>]
    IN  /\ (pc = "initialize" /\ pc' = "retry") =>
               /\ nnf'.field[<<cx, cy>>] =
                      [e EXCEPT !.distance = distance(nnf, radius, cx, cy, e.x, e.y)]
               /\ iter' = 0
        /\ (pc = "retry" /\ pc' = "retry" /\ iter' # iter) =>
               /\ e.distance = 65535 /\ iter < 20 /\ iter' = iter + 1
               /\ LET n == nnf'.field[<<cx, cy>>]
                  IN  /\ <<n.x, n.y>> \in DOMAIN nnf.field
                      /\ n.distance = distance(nnf, radius, cx, cy, n.x, n.y)
        /\ (pc = "retry" /\ pc' = "initialize") =>
               /\ nnf' = nnf
               /\ e.distance < 65535 \/ iter = 20

\* C17: initialize(coarser) on a fine field of Wf x Hf entries from a coarser
\* one of Wc x Hc (Wf >= Wc, Hf >= Hc) uses xscale = Wf div Wc and yscale =
\* Hf div Hc, reads for each fine (x, y) the coarser entry at (min(x div
\* xscale, Wc-1), min(y div yscale, Hc-1)) and sets the link to that entry's
\* link times the scales; the link is kept unless its recomputed distance is
\* 65535, and is then replaced by at most 20 fresh random links, stopping at
\* the first whose distance is below 65535.
C17_InitializeFromCoarser == [][initializeScales /\ initializeRetries]_vars

\* a field initialized from a coarser one in patch(), an entry of it
\* resampled 20 times
C17_Witness ==
    /\ pc = "retry"
    /\ level < maxlevel - 1
    /\ iter = maxretry

\* a call of the first loop that doubled a link which is not (0, 0)
C17_WitnessScaled ==
    /\ call.op = "initialize" /\ call.done
    /\ call.new.imSize.w \div call.coarser.imSize.w = 2
    /\ \E p \in DOMAIN call.result.field : call.result.field[p].x = 2

\* every stored distance is the one distance() gives for the stored link on
\* the input and output images the field has now
distancesFresh ==
    \A p \in DOMAIN nnf.field :
        nnf.field[p].distance =
            distance(nnf, radius, p[1], p[2], nnf.field[p].x, nnf.field[p].y)

\* C18: whenever minimize() is entered (pass = 0) and whenever EM_Step is
\* about to read the field (the passes are done), the stored distance of
\* every entry equals distance(x, y, sx, sy) on the current input and output
\* of the field, also after ExpectationMaximization replaced nnf.input.
C18_DistancesFresh ==
    (pc = "minimize" /\ (pass = 0 \/ pass >= iterNNF)) => distancesFresh

\* the same at the first entry of minimize() in ExpectationMaximization only,
\* before nnf.input was ever replaced
C18_FreshAtFirstEntry ==
    (pc = "minimize" /\ pass = 0 /\ emloop = 1) => distancesFresh

\* the cell of the running loop is an entry of the field wherever randomize,
\* initialize, minimize and minimizeLink index it, and so is the neighbour
\* of the horizontal propagation
loopAccesses ==
    /\ (pc \in {"randomize", "initialize"} /\ cy < nnf.imSize.h) =>
           <<cx, cy>> \in DOMAIN nnf.field
    /\ (pc = "forward" /\ cy < forwardRows) => <<cx, cy>> \in DOMAIN nnf.field
    /\ (pc = "reverse" /\ cy >= 0) => <<cx, cy>> \in DOMAIN nnf.field
    /\ pc \in {"retry", "propagateH", "propagateV", "search"} =>
           <<cx, cy>> \in DOMAIN nnf.field
    /\ (pc = "propagateH" /\ cx - dir > 0 /\ cx - dir < nnf.imSize.w) =>
           <<cx - dir, cy>> \in DOMAIN nnf.field

\* initialize(coarser) is about to run on the field of the new target: the
\* scales are at least 1 and every entry read lies in the coarser field
coarserAccesses ==
    (pc = "level" /\ level >= 1 /\ level # maxlevel - 1) =>
        /\ nnf.imSize.w >= 1 /\ nnf.imSize.h >= 1
        /\ size(target).w \div nnf.imSize.w >= 1
        /\ size(target).h \div nnf.imSize.h >= 1
        /\ \A p \in Cells(size(target).w, size(target).h) :
               <<Min(p[1] \div (size(target).w \div nnf.imSize.w), nnf.imSize.w - 1),
                 Min(p[2] \div (size(target).h \div nnf.imSize.h), nnf.imSize.h - 1)>>
                   \in DOMAIN nnf.field

\* EM_Step is about to run: for every target pixel and every patch offset
\* that passes the tests before each access, the field entry read exists
\* and its d indexes similarity, (xs, ys) indexes the mask cache of the
\* source, and the target pixel indexes the image cache of the source and
\* holds a byte, the index of the histogram
emAccesses ==
    (pc = "minimize" /\ pass >= iterNNF) =>
        \A p \in Cells(size(emTarget).w, size(emTarget).h) :
            \A o \in Offsets(IF emUpscaled THEN 2 * radius ELSE radius) :
                centreInField(nnf, emUpscaled, p[1], p[2], o[1], o[2]) =>
                    LET e == votedEntry(emUpscaled, p[1] + o[1], p[2] + o[2])
                        s == votedSource(nnf, emUpscaled, p[1], p[2], o[1], o[2])
                    IN  /\ e \in DOMAIN nnf.field
                        /\ nnf.field[e].distance \in 0 .. MAX_DIST
                        /\ sourceInSize(nnf, s[1], s[2]) =>
                              /\ s \in DOMAIN emSource.maskCache
                              /\ ~isMasked(emSource, s[1], s[2]) =>
                                    /\ p \in DOMAIN emSource.imageCache
                                    /\ emSource.imageCache[p] \in 0 .. 255

\* C19: throughout patch(), for every image size and radius >= 1, every
\* indexed access is within the extents of the array it reads or writes:
\* the field in randomize, initialize, minimizeLink and EM_Step, the coarser
\* field and the divisions by xscale and yscale in initialize(coarser), the
\* mask cache and the image cache of the source in EM_Step, and similarity[d].
C19_AccessesInExtents ==
    radius >= 1 => (loopAccesses /\ coarserAccesses /\ emAccesses)

\* the upscaled EM_Step is about to run with a patch offset whose source
\* pixel (xs, ys) falls outside sz and is skipped by the tests
C19_Witness ==
    /\ radius >= 1
    /\ pc = "minimize" /\ pass >= iterNNF /\ emUpscaled
    /\ \E p \in Cells(size(emTarget).w, size(emTarget).h), o \in Offsets(2 * radius) :
          /\ centreInField(nnf, emUpscaled, p[1], p[2], o[1], o[2])
          /\ LET s == votedSource(nnf, emUpscaled, p[1], p[2], o[1], o[2])
             IN  ~sourceInSize(nnf, s[1], s[2])

=========================================================================
